---------------------------- MODULE Spec2Model ----------------------------
(***************************************************************************)
(* containerd-shim-wasmtime: the execution dispatcher's signal loop        *)
(* (instance.rs, execute_component / wait_for_signal), the HTTP proxy      *)
(* server (http_proxy.rs, serve_conn), the per-request handler             *)
(* (ProxyHandler::handle_request) and batch precompilation                 *)
(* (WasmtimeEngine::precompile).                                           *)
(***************************************************************************)
EXTENDS Integers, Sequences, FiniteSets, TLC

\* ---------------------------------------------------------------- bounds
MaxConns == 2
MaxReqs == 2
MaxLayers == 3
MaxExports == 3

Conns == 1..MaxConns
Reqs == 1..MaxReqs

\* ------------------------------------------------------- program constants
SIGINT == 2
SIGQUIT == 3
SIGTERM == 15

Signals == {"quit", "terminate", "interrupt"}

\* The number the operating system gives each watched signal.
SigNum(s) ==
    CASE s = "quit" -> SIGQUIT
      [] s = "terminate" -> SIGTERM
      [] s = "interrupt" -> SIGINT

Targets == {"HttpProxy", "Command", "Core"}

\* What a guest may write to the response slot: Result<Response, ErrorCode>.
SlotWrites == {<<"ok", "resp">>, <<"err", "code">>}

\* How a guest task may end: Ok(()), Err(e), or the task aborting (JoinError).
GuestErrors == {"trap"}
TaskEnds == {<<"ok", "-">>, <<"abort", "JoinError">>} \cup {<<"err", e>> : e \in GuestErrors}

\* Outcomes of a Command / Core guest call, before exit-code normalisation.
ExecOutcomes == {[kind |-> "ok", code |-> 0, err |-> "-"],
                 [kind |-> "err", code |-> 0, err |-> "guest"]}

LayerKinds == {"precompiled", "module", "component", "unknown"}

VARIABLES
    target,         \* ComponentTarget resolved for this run
    result,         \* what run returned: [kind, code, err], kind "none" while running
    done,           \* execute_component's local `done`
    cancelled,      \* the shared CancellationToken
    sig2,           \* the signal delivered second ("-" if none)
    nsig,           \* the number of signals delivered to the process so far
    srv,            \* serve_conn's position
    trackerClosed,  \* TaskTracker closed
    conn,           \* per connection: the connection task's position
    cur,            \* per connection: the request it is handling (0: none)
    next_id,        \* ProxyHandlerInner.next_id
    issued,         \* the ids returned by next_req_id, in issuance order
    task,           \* per request: the spawned guest task
    slot,           \* per request: the one-shot response channel
    reply,          \* per request: what handle_request returned
    layers,         \* precompile: the input layers
    compiled_layers,\* precompile: the vector being built
    layer_idx,      \* precompile: the loop position
    pre_res,        \* precompile: "running", "ok" or "err"
    exports,        \* target resolution: the component's export names, in order
    func,           \* target resolution: the requested function name
    resolved,       \* target resolution: the ComponentTarget returned
    bin,            \* dispatch: what the entrypoint's bytes are
    has_func,       \* dispatch: whether the binary exports the requested function
    d_trace,        \* dispatch: the steps of execute carried out so far, in order
    d_out,          \* dispatch: the outcome of the step that ended the execution
    err_func,       \* dispatch: the function name the returned error mentions
    ctx_envs,       \* environment: the RuntimeContext's envs, "KEY=VALUE" strings
    env_st,         \* environment: serve_conn's position ("off", "serving", "failed")
    addr,           \* environment: the address the socket is bound to
    backlog,        \* environment: the backlog the socket listens with
    henv,           \* environment: ProxyHandlerInner.env
    stores          \* environment: the store built for each request, in order

sigVars == <<result, done, cancelled, sig2, nsig, nsig>>
srvVars == <<srv, trackerClosed>>
connVars == <<conn, cur>>
reqVars == <<next_id, issued, task, slot, reply>>
preVars == <<layers, compiled_layers, layer_idx, pre_res>>
tgtVars == <<exports, func, resolved>>
dispVars == <<bin, has_func, d_trace, d_out, err_func>>
envVars == <<ctx_envs, env_st, addr, backlog, henv, stores>>
auxVars == <<preVars, tgtVars, dispVars, envVars>>
vars == <<target, sigVars, srvVars, connVars, reqVars, auxVars>>

NoResult == [kind |-> "none", code |-> 0, err |-> "-"]
OkCode(n) == [kind |-> "ok", code |-> n, err |-> "-"]
ErrRes(e) == [kind |-> "err", code |-> 0, err |-> e]

Running == result.kind = "none"

\* A connection task that was spawned on the tracker and has not completed.
ConnLive(c) == conn[c] \in {"idle", "inst", "recv", "join"}

\* ------------------------------------------------------------ pure helpers

\* An error that is wasmtime_wasi::I32Exit(n): the guest asked to exit with n.
I32Exit(n) == [kind |-> "err", code |-> n, err |-> "I32Exit"]

into_error_code_keeps_exit(r) ==
    IF r.kind = "ok" THEN OkCode(r.code) ELSE r
\* IntoErrorCode: Ok stays (Ok(()) is exit code 0); an error that downcasts
\* to I32Exit becomes Ok(its exit code); any other error stays an error.
into_error_code(r) ==
    IF r.kind = "ok" THEN OkCode(r.code)
    ELSE IF r.err = "I32Exit" THEN OkCode(r.code)
    ELSE r

run_wasi_result_plain(r) == r
\* run_wasi: self.execute(..).into_error_code().
run_wasi_result(r) == into_error_code(r)

\* wait_for_signal (unix): the number reported for the signal received.
wait_for_signal(s) ==
    CASE s = "quit" -> SIGINT
      [] s = "terminate" -> SIGTERM
      [] s = "interrupt" -> SIGINT

next_req_id_lost(n) == n
\* AtomicU64::fetch_add(1): the counter's value after the call (the call
\* returns the value before).
next_req_id(n) == n + 1

recv_value_forget_err(w) == <<"ok", w[2]>>
\* handle_request, receiver.await = Ok(w): Ok(Ok(resp)) => Ok(resp),
\* Ok(Err(e)) => Err(e.into()).
recv_value(w) ==
    IF w[1] = "ok" THEN <<"ok", w[2]>> ELSE <<"err", w[2]>>

join_cause_recv_error(t) ==
    IF t[1] = "ok" THEN <<"panic", "-">> ELSE <<"never_set", "RecvError">>
\* handle_request, receiver.await = Err(_): the task's result decides the reply.
\* Ok(e) => e.expect_err(..) panics when e is Ok(()); Err(join) => join.into().
join_cause(t) ==
    CASE t[1] = "ok" -> <<"panic", "-">>
      [] t[1] = "err" -> <<"never_set", t[2]>>
      [] OTHER -> <<"never_set", t[2]>>

log_conn_error_stops(s) == "stopped"
\* The connection task's `if let Err(e) = .. { log::error!(..) }`: the error
\* is logged and the task ends; the serve loop is where it was.
log_conn_error(s) == s

task_finished_never_waits(t) == TRUE
\* task.await: resolves once the spawned task has ended.
task_finished(t) == t[1] \in {"ok", "err", "abort"}

second_branch_waits_drain == done /\ \A c \in Conns : ~ConnLive(c)
\* execute_component: the guard of the second wait_for_signal branch (`if done`).
second_branch == done

\* ------------------------------------------------------------------- Init

\* The variables of an operation that is not running in a specification.
PrecompileIdle ==
    /\ layers = <<>>
    /\ compiled_layers = <<>>
    /\ layer_idx = 0
    /\ pre_res = "off"

ResolveIdle ==
    /\ exports = <<>>
    /\ func = "-"
    /\ resolved = <<"none", "-">>

DispatchIdle ==
    /\ bin = "-"
    /\ has_func = FALSE
    /\ d_trace = <<>>
    /\ d_out = [k |-> "none", code |-> 0]
    /\ err_func = "-"

EnvIdle ==
    /\ ctx_envs = <<>>
    /\ env_st = "off"
    /\ addr = <<"-", 0>>
    /\ backlog = 0
    /\ henv = <<>>
    /\ stores = <<>>

RunIdle ==
    /\ result = NoResult
    /\ done = FALSE
    /\ cancelled = FALSE
    /\ sig2 = "-"
    /\ nsig = 0
    /\ srv = "off"
    /\ trackerClosed = FALSE
    /\ conn = [c \in Conns |-> "none"]
    /\ cur = [c \in Conns |-> 0]
    /\ next_id = 0
    /\ issued = <<>>
    /\ task = [r \in Reqs |-> <<"none", "-">>]
    /\ slot = [r \in Reqs |-> <<"none", "-">>]
    /\ reply = [r \in Reqs |-> <<"none", "-">>]

Init ==
    /\ target \in Targets
    /\ result = NoResult
    /\ done = FALSE
    /\ cancelled = FALSE
    /\ sig2 = "-"
    /\ nsig = 0
    /\ srv = IF target = "HttpProxy" THEN "start" ELSE "off"
    /\ trackerClosed = FALSE
    /\ conn = [c \in Conns |-> "none"]
    /\ cur = [c \in Conns |-> 0]
    /\ next_id = 0
    /\ issued = <<>>
    /\ task = [r \in Reqs |-> <<"none", "-">>]
    /\ slot = [r \in Reqs |-> <<"none", "-">>]
    /\ reply = [r \in Reqs |-> <<"none", "-">>]
    /\ PrecompileIdle
    /\ ResolveIdle
    /\ DispatchIdle
    /\ EnvIdle

\* ------------------------------------------------ execute_component's loop

\* First signal: `_ = wait_for_signal(), if !done` cancels the token.
SignalFirst(s) ==
    /\ Running
    /\ ~done
    /\ cancelled' = TRUE
    /\ done' = TRUE
    /\ nsig' = nsig + 1
    /\ UNCHANGED <<target, result, sig2, srvVars, connVars, reqVars, auxVars>>

\* Second signal: `sig = wait_for_signal(), if done` returns Ok(128 + sig?).
SignalSecond(s) ==
    /\ Running
    /\ second_branch
    /\ result' = OkCode(128 + wait_for_signal(s))
    /\ sig2' = s
    /\ nsig' = nsig + 1
    /\ UNCHANGED <<target, done, cancelled, srvVars, connVars, reqVars, auxVars>>

\* wait_for_signal fails (a signal stream cannot be registered) in the first
\* branch: `_ =` matches the Err as well, so the token is cancelled.
SignalErrFirst ==
    /\ Running
    /\ ~done
    /\ cancelled' = TRUE
    /\ done' = TRUE
    /\ UNCHANGED <<target, result, sig2, nsig, srvVars, connVars, reqVars, auxVars>>

\* wait_for_signal fails in the second branch: `sig?` returns the error.
SignalErrSecond ==
    /\ Running
    /\ second_branch
    /\ result' = into_error_code(ErrRes("signal"))
    /\ UNCHANGED <<target, done, cancelled, sig2, nsig, srvVars, connVars, reqVars, auxVars>>

\* Command / Core: the guest call completes and `status = &mut exec` returns it.
ExecFinish(o) ==
    /\ Running
    /\ target \in {"Command", "Core"}
    /\ result' = into_error_code(o)
    /\ UNCHANGED <<target, done, cancelled, sig2, nsig, srvVars, connVars, reqVars, auxVars>>

\* --------------------------------------------------------------- serve_conn

\* Socket set-up up to the log line; any `?` before the loop returns the error.
ServeStart(ok) ==
    /\ Running
    /\ srv = "start"
    /\ IF ok
         THEN srv' = "listen" /\ result' = result
         ELSE srv' = "start_err" /\ result' = into_error_code(ErrRes("io"))
    /\ UNCHANGED <<target, done, cancelled, sig2, nsig, trackerClosed, connVars, reqVars, auxVars>>

\* A client connects: the connection waits in the listener's backlog.
\* Connections are numbered in the order in which they are made.
ClientConnect(c) ==
    /\ Running
    /\ srv = "listen"
    /\ conn[c] = "none"
    /\ \A d \in Conns : d < c => conn[d] # "none"
    /\ conn' = [conn EXCEPT ![c] = "backlog"]
    /\ UNCHANGED <<target, sigVars, srvVars, cur, reqVars, auxVars>>

\* select!: `res = listener.accept()` with Ok: the connection task is spawned
\* on the tracker (the backlog is served oldest first).  The select is not
\* biased, so this branch may be taken whether or not the token is cancelled.
Accept(c) ==
    /\ Running
    /\ srv = "listen"
    /\ conn[c] = "backlog"
    /\ \A d \in Conns : d < c => conn[d] # "backlog"
    /\ conn' = [conn EXCEPT ![c] = "idle"]
    /\ UNCHANGED <<target, sigVars, srvVars, cur, reqVars, auxVars>>

\* select!: `res = listener.accept()` with Err: `res?` returns from serve_conn
\* at once, and execute_component returns that status.
AcceptErr ==
    /\ Running
    /\ srv = "listen"
    /\ srv' = "stopped"
    /\ result' = into_error_code(ErrRes("io"))
    /\ UNCHANGED <<target, done, cancelled, sig2, nsig, trackerClosed, connVars, reqVars, auxVars>>

\* select!: `_ = cancel.cancelled()` breaks the loop; tracker.close().
ObserveCancel ==
    /\ Running
    /\ srv = "listen"
    /\ cancelled
    /\ srv' = "drain"
    /\ trackerClosed' = TRUE
    /\ UNCHANGED <<target, sigVars, connVars, reqVars, auxVars>>

\* tracker.wait() resolves once every tracked task has completed; Ok(()).
DrainDone ==
    /\ Running
    /\ srv = "drain"
    /\ \A c \in Conns : ~ConnLive(c)
    /\ srv' = "stopped"
    /\ result' = into_error_code([kind |-> "ok", code |-> 0, err |-> "-"])
    /\ UNCHANGED <<target, done, cancelled, sig2, nsig, trackerClosed, connVars, reqVars, auxVars>>

\* ------------------------------------------- connection task, handle_request

\* A request arrives on an idle keep-alive connection: handle_request creates
\* the one-shot channel and takes the next request id.
ClientRequest(c) ==
    /\ Running
    /\ conn[c] = "idle"
    /\ Len(issued) < MaxReqs
    /\ LET r == Len(issued) + 1 IN
         /\ issued' = Append(issued, next_id)
         /\ next_id' = next_req_id(next_id)
         /\ slot' = [slot EXCEPT ![r] = <<"empty", "-">>]
         /\ cur' = [cur EXCEPT ![c] = r]
         /\ conn' = [conn EXCEPT ![c] = "inst"]
    /\ UNCHANGED <<target, sigVars, srvVars, task, reply, auxVars>>

\* new_incoming_request / new_response_outparam / instantiate_async: on
\* failure `?` returns the error (hyper ends the connection on a service
\* error); on success the guest task is spawned.
Instantiate(c, ok) ==
    /\ Running
    /\ conn[c] = "inst"
    /\ LET r == cur[c] IN
         IF ok
           THEN /\ task' = [task EXCEPT ![r] = <<"running", "-">>]
                /\ conn' = [conn EXCEPT ![c] = "recv"]
                /\ UNCHANGED <<reply, slot, cur, srv>>
           ELSE /\ reply' = [reply EXCEPT ![r] = <<"inst_err", "-">>]
                /\ slot' = [slot EXCEPT ![r] = <<"closed", "-">>]
                /\ conn' = [conn EXCEPT ![c] = "done"]
                /\ cur' = [cur EXCEPT ![c] = 0]
                /\ srv' = log_conn_error(srv)
                /\ UNCHANGED task
    /\ UNCHANGED <<target, sigVars, trackerClosed, next_id, issued, auxVars>>

\* The guest calls response-outparam::set with w.
GuestSet(r, w) ==
    /\ Running
    /\ task[r][1] = "running"
    /\ slot[r][1] = "empty"
    /\ slot' = [slot EXCEPT ![r] = <<"full", w>>]
    /\ UNCHANGED <<target, sigVars, srvVars, connVars, next_id, issued, task, reply, auxVars>>

\* The guest drops the response-outparam resource without setting it.
GuestDropOutparam(r) ==
    /\ Running
    /\ task[r][1] = "running"
    /\ slot[r][1] = "empty"
    /\ slot' = [slot EXCEPT ![r] = <<"closed", "-">>]
    /\ UNCHANGED <<target, sigVars, srvVars, connVars, next_id, issued, task, reply, auxVars>>

\* The spawned task ends; the store (and an unused sender) is dropped with it.
GuestEnd(r, e) ==
    /\ Running
    /\ task[r][1] = "running"
    /\ task' = [task EXCEPT ![r] = e]
    /\ slot' = [slot EXCEPT ![r] = IF slot[r][1] = "empty" THEN <<"closed", "-">> ELSE slot[r]]
    /\ UNCHANGED <<target, sigVars, srvVars, connVars, next_id, issued, reply, auxVars>>

\* receiver.await resolves: with the value written, or with RecvError.
HandlerRecv(c) ==
    /\ Running
    /\ conn[c] = "recv"
    /\ LET r == cur[c] IN
         /\ slot[r][1] \in {"full", "closed"}
         /\ IF slot[r][1] = "full"
              THEN /\ reply' = [reply EXCEPT ![r] = recv_value(slot[r][2])]
                   /\ conn' = [conn EXCEPT ![c] =
                          IF recv_value(slot[r][2])[1] = "ok" THEN "idle" ELSE "done"]
                   /\ srv' = IF recv_value(slot[r][2])[1] = "ok"
                                THEN srv ELSE log_conn_error(srv)
                   /\ cur' = [cur EXCEPT ![c] = 0]
              ELSE /\ conn' = [conn EXCEPT ![c] = "join"]
                   /\ UNCHANGED <<reply, cur, srv>>
    /\ UNCHANGED <<target, sigVars, trackerClosed, next_id, issued, task, slot, auxVars>>

\* task.await resolves once the task has ended; the reply is built from it.
HandlerJoin(c) ==
    /\ Running
    /\ conn[c] = "join"
    /\ LET r == cur[c] IN
         /\ task_finished(task[r])
         /\ reply' = [reply EXCEPT ![r] = join_cause(task[r])]
         /\ conn' = [conn EXCEPT ![c] = "done"]
         /\ cur' = [cur EXCEPT ![c] = 0]
         /\ srv' = log_conn_error(srv)
    /\ UNCHANGED <<target, sigVars, trackerClosed, next_id, issued, task, slot, auxVars>>

\* The peer closes the connection (or its I/O fails): serve_connection
\* completes, dropping a handle_request in progress; a spawned guest task
\* is detached and keeps running.
ClientClose(c) ==
    /\ Running
    /\ ConnLive(c)
    /\ conn' = [conn EXCEPT ![c] = "done"]
    /\ reply' = IF conn[c] \in {"inst", "recv", "join"}
                  THEN [reply EXCEPT ![cur[c]] = <<"dropped", "-">>]
                  ELSE reply
    /\ cur' = [cur EXCEPT ![c] = 0]
    /\ srv' = log_conn_error(srv)
    /\ UNCHANGED <<target, sigVars, trackerClosed, next_id, issued, task, slot, auxVars>>

Next ==
    \/ \E s \in Signals : SignalFirst(s)
    \/ \E s \in Signals : SignalSecond(s)
    \/ \E o \in ExecOutcomes : ExecFinish(o)
    \/ \E ok \in BOOLEAN : ServeStart(ok)
    \/ \E c \in Conns : ClientConnect(c)
    \/ \E c \in Conns : Accept(c)
    \/ AcceptErr
    \/ ObserveCancel
    \/ DrainDone
    \/ \E c \in Conns : ClientRequest(c)
    \/ \E c \in Conns, ok \in BOOLEAN : Instantiate(c, ok)
    \/ \E r \in Reqs, w \in SlotWrites : GuestSet(r, w)
    \/ \E r \in Reqs : GuestDropOutparam(r)
    \/ \E r \in Reqs, e \in TaskEnds : GuestEnd(r, e)
    \/ \E c \in Conns : HandlerRecv(c)
    \/ \E c \in Conns : HandlerJoin(c)
    \/ \E c \in Conns : ClientClose(c)

Spec == Init /\ [][Next]_vars

\* ---------------------------------- signal streams that fail to register

NextCoord ==
    \/ Next
    \/ SignalErrFirst
    \/ SignalErrSecond

SpecCoord == Init /\ [][NextCoord]_vars

\* --------------------------------------- the build for non-unix platforms

\* wait_for_signal (not unix): ctrl_c().await, then Ok(1).
wait_for_signal_not_unix == 1

\* The first Ctrl-C: the same first branch of the loop cancels the token.
CtrlCFirst ==
    /\ Running
    /\ ~done
    /\ cancelled' = TRUE
    /\ done' = TRUE
    /\ nsig' = nsig + 1
    /\ UNCHANGED <<target, result, sig2, srvVars, connVars, reqVars, auxVars>>

\* A further Ctrl-C: the second branch returns Ok(128 + 1).
CtrlCSecond ==
    /\ Running
    /\ second_branch
    /\ result' = OkCode(128 + wait_for_signal_not_unix)
    /\ sig2' = "interrupt"
    /\ nsig' = nsig + 1
    /\ UNCHANGED <<target, done, cancelled, srvVars, connVars, reqVars, auxVars>>

NextNotUnix ==
    \/ CtrlCFirst
    \/ CtrlCSecond
    \/ \E o \in ExecOutcomes : ExecFinish(o)
    \/ \E ok \in BOOLEAN : ServeStart(ok)
    \/ \E c \in Conns : ClientConnect(c)
    \/ \E c \in Conns : Accept(c)
    \/ AcceptErr
    \/ ObserveCancel
    \/ DrainDone
    \/ \E c \in Conns : ClientRequest(c)
    \/ \E c \in Conns, ok \in BOOLEAN : Instantiate(c, ok)
    \/ \E r \in Reqs, w \in SlotWrites : GuestSet(r, w)
    \/ \E r \in Reqs : GuestDropOutparam(r)
    \/ \E r \in Reqs, e \in TaskEnds : GuestEnd(r, e)
    \/ \E c \in Conns : HandlerRecv(c)
    \/ \E c \in Conns : HandlerJoin(c)
    \/ \E c \in Conns : ClientClose(c)

SpecNotUnix == Init /\ [][NextNotUnix]_vars

\* ------------------------------------- one signal, no second one (drain)

\* The scenario of a graceful shutdown: the HTTP-proxy target, a listener
\* that does not fail, and no second signal.
InitDrain == Init /\ target = "HttpProxy"

NextDrain ==
    \/ \E s \in Signals : SignalFirst(s)
    \/ ServeStart(TRUE)
    \/ \E c \in Conns : ClientConnect(c)
    \/ \E c \in Conns : Accept(c)
    \/ ObserveCancel
    \/ DrainDone
    \/ \E c \in Conns : ClientRequest(c)
    \/ \E c \in Conns, ok \in BOOLEAN : Instantiate(c, ok)
    \/ \E r \in Reqs, w \in SlotWrites : GuestSet(r, w)
    \/ \E r \in Reqs : GuestDropOutparam(r)
    \/ \E r \in Reqs, e \in TaskEnds : GuestEnd(r, e)
    \/ \E c \in Conns : HandlerRecv(c)
    \/ \E c \in Conns : HandlerJoin(c)
    \/ \E c \in Conns : ClientClose(c)

\* The scheduler polls every task that can make progress: the serve loop,
\* the connection tasks and handlers, and the guest tasks (which are taken
\* to terminate).  Nothing is assumed of the clients or of signals.
FairDrain ==
    /\ WF_vars(ServeStart(TRUE))
    /\ WF_vars(ObserveCancel)
    /\ WF_vars(DrainDone)
    /\ \A c \in Conns : WF_vars(Accept(c))
    /\ \A c \in Conns : WF_vars(\E ok \in BOOLEAN : Instantiate(c, ok))
    /\ \A c \in Conns : WF_vars(HandlerRecv(c))
    /\ \A c \in Conns : WF_vars(HandlerJoin(c))
    /\ \A r \in Reqs : WF_vars(\E e \in TaskEnds : GuestEnd(r, e))

SpecDrain == InitDrain /\ [][NextDrain]_vars /\ FairDrain

\* --------------------------------------------------------------- precompile

\* What one iteration of precompile's loop pushes for a layer whose
\* compilation (if any) succeeds: None for an already precompiled layer,
\* Some(blob) for a module or a component, nothing for an unknown binary
\* type (`continue` before the push).
precompile_layer(kind) ==
    CASE kind = "precompiled" -> <<"None">>
      [] kind = "module" -> <<"cwasm_module">>
      [] kind = "component" -> <<"cwasm_component">>
      [] kind = "unknown" -> <<>>

\* Whether the iteration calls the engine's compiler, which may fail.
Compiles(kind) == kind \in {"module", "component"}

LayerSeqs == UNION {[1..n -> LayerKinds] : n \in 0..MaxLayers}

InitPrecompile ==
    /\ RunIdle
    /\ target = "Core"
    /\ ResolveIdle
    /\ DispatchIdle
    /\ EnvIdle
    /\ layers \in LayerSeqs
    /\ compiled_layers = <<>>
    /\ layer_idx = 1
    /\ pre_res = "running"

\* One iteration of `for layer in layers`; `?` on a failed compilation
\* returns the error.
PrecompileLayer(ok) ==
    /\ pre_res = "running"
    /\ layer_idx <= Len(layers)
    /\ ok \/ Compiles(layers[layer_idx])
    /\ IF ok
         THEN /\ compiled_layers' = compiled_layers \o precompile_layer(layers[layer_idx])
              /\ layer_idx' = layer_idx + 1
              /\ UNCHANGED pre_res
         ELSE /\ pre_res' = "err"
              /\ UNCHANGED <<compiled_layers, layer_idx>>
    /\ UNCHANGED <<target, sigVars, srvVars, connVars, reqVars, layers, tgtVars, dispVars, envVars>>

\* The loop is over: Ok(compiled_layers).
PrecompileReturn ==
    /\ pre_res = "running"
    /\ layer_idx > Len(layers)
    /\ pre_res' = "ok"
    /\ UNCHANGED <<target, sigVars, srvVars, connVars, reqVars, layers, compiled_layers, layer_idx, tgtVars, dispVars, envVars>>

NextPrecompile ==
    \/ \E ok \in BOOLEAN : PrecompileLayer(ok)
    \/ PrecompileReturn

SpecPrecompile == InitPrecompile /\ [][NextPrecompile]_vars

\* -------------------------------------------------------- ComponentTarget

\* Export names, as the pieces a prefix test can tell apart.
HTTP_PREFIX == <<"wasi:http/", "incoming-handler">>
CLI_PREFIX == <<"wasi:cli/", "run">>

ExportNames ==
    {<<"wasi:http/", "incoming-handler", "@0.2.0">>,
     <<"wasi:http/", "incoming-handler">>,
     <<"wasi:cli/", "run", "@0.2.0">>,
     <<"wasi:http/", "outgoing-handler">>,
     <<"wasi:cli/", "environment">>,
     <<"run">>}

FuncNames == {"_start", "main"}

\* str::starts_with.
starts_with(name, prefix) ==
    /\ Len(name) >= Len(prefix)
    /\ SubSeq(name, 1, Len(prefix)) = prefix

\* The closure of find_map: Some(HttpProxy), Some(Command) or None.
target_of_export(name) ==
    IF starts_with(name, HTTP_PREFIX) THEN <<"HttpProxy", "-">>
    ELSE IF starts_with(name, CLI_PREFIX) THEN <<"Command", "-">>
    ELSE <<"none", "-">>

\* Iterator::find_map from position i: the first Some, in listed order.
RECURSIVE find_map(_, _)
find_map(exps, i) ==
    IF i > Len(exps) THEN <<"none", "-">>
    ELSE IF target_of_export(exps[i])[1] # "none" THEN target_of_export(exps[i])
    ELSE find_map(exps, i + 1)

find_map_cli_first(exps, i) ==
    IF \E k \in i..Len(exps) : starts_with(exps[k], CLI_PREFIX) THEN <<"Command", "-">>
    ELSE find_map(exps, i)

ComponentTarget_new_cli_first(exps, f) ==
    IF find_map_cli_first(exps, 1)[1] = "none" THEN <<"Core", f>> ELSE find_map_cli_first(exps, 1)

ComponentTarget_new_default_start(exps, f) ==
    IF find_map(exps, 1)[1] = "none" THEN <<"Core", "_start">> ELSE find_map(exps, 1)

\* ComponentTarget::new: find_map(..).unwrap_or(Core(func)).
ComponentTarget_new(exps, f) ==
    IF find_map(exps, 1)[1] = "none" THEN <<"Core", f>> ELSE find_map(exps, 1)

ExportSeqs == UNION {[1..n -> ExportNames] : n \in 0..MaxExports}

InitResolve ==
    /\ RunIdle
    /\ target = "Core"
    /\ PrecompileIdle
    /\ DispatchIdle
    /\ EnvIdle
    /\ exports \in ExportSeqs
    /\ func \in FuncNames
    /\ resolved = <<"none", "-">>

\* execute_component_async calls ComponentTarget::new once per component.
ResolveTarget ==
    /\ resolved[1] = "none"
    /\ resolved' = ComponentTarget_new(exports, func)
    /\ UNCHANGED <<target, sigVars, srvVars, connVars, reqVars, preVars, exports, func, dispVars, envVars>>

NextResolve == ResolveTarget

SpecResolve == InitResolve /\ [][NextResolve]_vars

\* ------------------------------------------------- run_wasi / execute paths

BinKinds == {"module", "component", "pre_module", "pre_component", "invalid"}
IsModule(b) == b \in {"module", "pre_module"}
IsComponent(b) == b \in {"component", "pre_component"}

\* One export list per component target.
DispatchExports ==
    {<<>>,
     <<<<"wasi:cli/", "environment">>, <<"wasi:http/", "incoming-handler", "@0.2.0">>>>,
     <<<<"wasi:cli/", "run", "@0.2.0">>>>}

ExitCodes == {0, 7}

\* How a guest call may end: it returns, traps, or asks to exit with a code;
\* the Command world's run may also return its own Err(()).  serve_conn
\* returns Ok(()) or an I/O error of the listener.
GuestOutcomes ==
    {[k |-> "ok", code |-> 0], [k |-> "trap", code |-> 0], [k |-> "run_err", code |-> 0],
     [k |-> "io", code |-> 0]}
        \cup {[k |-> "exit", code |-> n] : n \in ExitCodes}

\* The steps of execute, in program order, for a binary and (for a
\* component) its target.  Every step but "resolve" can fail.
ModuleSteps(b) ==
    <<IF b = "module" THEN "from_binary" ELSE "deserialize",
      "wasi_builder", "add_to_linker", "instantiate", "get_func", "redirect", "call">>

ComponentSteps(b, t) ==
    <<IF b = "component" THEN "from_binary" ELSE "deserialize", "resolve", "redirect">>
        \o CASE t = "HttpProxy" -> <<"add_to_linker", "instantiate_pre", "proxy_pre", "serve">>
              [] t = "Command" -> <<"wasi_ctx", "store_for_context", "instantiate", "call_run">>
              [] t = "Core" -> <<"wasi_ctx", "store_for_context", "instantiate_pre",
                                 "instantiate", "get_func", "call">>

Steps(b, t) ==
    IF IsModule(b) THEN ModuleSteps(b)
    ELSE IF IsComponent(b) THEN ComponentSteps(b, t)
    ELSE <<"bail">>

GuestSteps == {"call", "call_run", "serve"}
PlainSteps == {"from_binary", "deserialize", "wasi_builder", "wasi_ctx", "add_to_linker",
               "store_for_context", "instantiate", "instantiate_pre", "proxy_pre", "redirect"}

Dispatching == result.kind = "none" /\ bin # "-"
\* The step execute is about to carry out.
NextStep == Steps(bin, target)[Len(d_trace) + 1]

\* The error of a missing function: the message, and the name it mentions.
\* The module's message is fixed; the component's formats {func:?} into it.
missing_func_error(b, f) ==
    IF IsModule(b) THEN <<"module does not have a WASI start function", "-">>
    ELSE <<"component does not have exported function", f>>

\* The status of a guest step, as the code around the call shapes it:
\* call_run's Err(()) becomes the generic command-world error; a trap and an
\* exit are errors of the engine (an exit downcasts to I32Exit).
guest_status(o) ==
    CASE o.k = "ok" -> OkCode(0)
      [] o.k = "trap" -> ErrRes("trap")
      [] o.k = "io" -> ErrRes("io")
      [] o.k = "exit" -> I32Exit(o.code)
      [] o.k = "run_err" ->
            ErrRes("failed to run component targeting wasi:cli/command world")

InitDispatch ==
    /\ RunIdle
    /\ target = "Core"
    /\ PrecompileIdle
    /\ EnvIdle
    /\ resolved = <<"none", "-">>
    /\ bin \in BinKinds
    /\ exports \in (IF IsComponent(bin) THEN DispatchExports ELSE {<<>>})
    /\ func \in FuncNames
    /\ has_func \in BOOLEAN
    /\ d_trace = <<>>
    /\ d_out = [k |-> "none", code |-> 0]
    /\ err_func = "-"

\* A step that only prepares the execution: on failure `?` returns the error.
DispatchPlain(ok) ==
    /\ Dispatching
    /\ NextStep \in PlainSteps
    /\ d_trace' = Append(d_trace, NextStep)
    /\ IF ok
         THEN UNCHANGED <<result, d_out>>
         ELSE /\ result' = run_wasi_result(ErrRes(NextStep))
              /\ d_out' = [k |-> "fail", code |-> 0]
    /\ UNCHANGED <<target, done, cancelled, sig2, nsig, srvVars, connVars, reqVars, preVars, envVars,
                   tgtVars, bin, has_func, err_func>>

\* ComponentTarget::new on the component's exports.
DispatchResolve ==
    /\ Dispatching
    /\ NextStep = "resolve"
    /\ d_trace' = Append(d_trace, NextStep)
    /\ resolved' = ComponentTarget_new(exports, func)
    /\ target' = ComponentTarget_new(exports, func)[1]
    /\ UNCHANGED <<sigVars, srvVars, connVars, reqVars, preVars, envVars, exports, func,
                   bin, has_func, d_out, err_func>>

\* get_func(..).context(..)?: a missing function is an error.
DispatchGetFunc ==
    /\ Dispatching
    /\ NextStep = "get_func"
    /\ d_trace' = Append(d_trace, NextStep)
    /\ IF has_func
         THEN UNCHANGED <<result, d_out, err_func>>
         ELSE /\ result' = run_wasi_result(ErrRes(missing_func_error(bin, func)[1]))
              /\ err_func' = missing_func_error(bin, func)[2]
              /\ d_out' = [k |-> "fail", code |-> 0]
    /\ UNCHANGED <<target, done, cancelled, sig2, nsig, srvVars, connVars, reqVars, preVars, envVars,
                   tgtVars, bin, has_func>>

\* The guest runs (or the HTTP server serves) to its end.  call_run's engine
\* error leaves execute_component_async through `?`; every other status goes
\* through into_error_code there (or in execute_module) first.
DispatchGuest(o) ==
    /\ Dispatching
    /\ NextStep \in GuestSteps
    /\ o.k = "run_err" => NextStep = "call_run"
    /\ (NextStep = "serve") = (o.k \in {"ok", "io"})
    /\ d_trace' = Append(d_trace, NextStep)
    /\ d_out' = o
    /\ result' = IF NextStep = "call_run" /\ o.k \in {"trap", "exit"}
                    THEN run_wasi_result(guest_status(o))
                    ELSE run_wasi_result(into_error_code(guest_status(o)))
    /\ UNCHANGED <<target, done, cancelled, sig2, nsig, srvVars, connVars, reqVars, preVars, envVars,
                   tgtVars, bin, has_func, err_func>>

\* Neither a module, a component nor a precompiled artifact: bail!.
DispatchBail ==
    /\ Dispatching
    /\ NextStep = "bail"
    /\ d_trace' = Append(d_trace, NextStep)
    /\ d_out' = [k |-> "fail", code |-> 0]
    /\ result' = run_wasi_result(ErrRes("invalid precompiled module"))
    /\ UNCHANGED <<target, done, cancelled, sig2, nsig, srvVars, connVars, reqVars, preVars, envVars,
                   tgtVars, bin, has_func, err_func>>

NextDispatch ==
    \/ \E ok \in BOOLEAN : DispatchPlain(ok)
    \/ DispatchResolve
    \/ DispatchGetFunc
    \/ \E o \in GuestOutcomes : DispatchGuest(o)
    \/ DispatchBail

SpecDispatch == InitDispatch /\ [][NextDispatch]_vars

\* ------------------------------------- HTTP proxy settings and guest env
\* A string is a sequence of tokens; "=" and ":" are tokens of their own.

MaxEnvs == 2
MaxStores == 11

DEFAULT_ADDR == <<"0.0.0.0", 8080>>
DEFAULT_BACKLOG == 100

ADDR_KEY == <<"WASMTIME_HTTP_PROXY_SOCKET_ADDR">>
BACKLOG_KEY == <<"WASMTIME_HTTP_BACKLOG">>
REQUEST_ID_KEY == <<"REQUEST_ID">>

\* The entries a RuntimeContext may carry.
RawEnvs ==
    {<<"WASMTIME_HTTP_PROXY_SOCKET_ADDR", "=", "127.0.0.1", ":", "9">>,
     <<"WASMTIME_HTTP_PROXY_SOCKET_ADDR", "=", "localhost">>,
     <<"WASMTIME_HTTP_BACKLOG", "=", "5">>,
     <<"WASMTIME_HTTP_BACKLOG">>,
     <<"PATH", "=", "a", "=", "b">>,
     <<"REQUEST_ID", "=", "x">>}

CtxEnvs == UNION {[1..n -> RawEnvs] : n \in 0..MaxEnvs}

None == <<"none", <<>>>>
Some(x) == <<"some", x>>

Digits == <<"0", "1", "2", "3", "4", "5", "6", "7", "8", "9">>
DigitValue(d) == (CHOOSE i \in 1..Len(Digits) : Digits[i] = d) - 1
IsDigit(d) == \E i \in 1..Len(Digits) : Digits[i] = d

RECURSIVE to_string(_)
\* u64::to_string: the decimal digits, most significant first.
to_string(n) ==
    IF n < 10 THEN <<Digits[n + 1]>>
    ELSE to_string(n \div 10) \o <<Digits[(n % 10) + 1]>>

RECURSIVE parse_digits(_)
parse_digits(v) ==
    IF v = <<>> THEN 0
    ELSE 10 * parse_digits(SubSeq(v, 1, Len(v) - 1)) + DigitValue(v[Len(v)])

\* str::parse::<u32>: a non-empty run of decimal digits.
parse_u32(v) ==
    IF v # <<>> /\ \A i \in 1..Len(v) : IsDigit(v[i]) THEN Some(parse_digits(v)) ELSE None

IpLiterals == {"127.0.0.1"}
\* str::parse::<SocketAddr>: an IP literal, ":", a port.
parse_addr(v) ==
    IF /\ Len(v) >= 3
       /\ v[1] \in IpLiterals
       /\ v[2] = ":"
       /\ parse_u32(SubSeq(v, 3, Len(v))) # None
      THEN Some(<<v[1], parse_u32(SubSeq(v, 3, Len(v)))[2]>>)
      ELSE None

\* str::split_once('='): the text before and after the first "=".
split_once(v) ==
    IF \E i \in 1..Len(v) : v[i] = "="
      THEN LET i == CHOOSE k \in 1..Len(v) : v[k] = "=" /\ \A j \in 1..(k - 1) : v[j] # "="
           IN  Some(<<SubSeq(v, 1, i - 1), SubSeq(v, i + 1, Len(v))>>)
      ELSE None

envs_from_ctx(envs) ==
    [i \in 1..Len(envs) |->
        IF split_once(envs[i]) = None THEN <<envs[i], <<>>>> ELSE split_once(envs[i])[2]]

\* A HashMap is a set of <<key, value>> pairs with distinct keys.
map_insert(mp, kv) == {p \in mp : p[1] # kv[1]} \cup {kv}

RECURSIVE collect_map(_)
\* Iterator::collect::<HashMap>: later entries replace earlier ones.
collect_map(pairs) ==
    IF pairs = <<>> THEN {}
    ELSE map_insert(collect_map(SubSeq(pairs, 1, Len(pairs) - 1)), pairs[Len(pairs)])

map_get(mp, k) ==
    IF \E p \in mp : p[1] = k THEN Some((CHOOSE p \in mp : p[1] = k)[2]) ELSE None

\* The same lookup with the entry left in the map.
map_remove_keeps(mp, k) == <<map_get(mp, k), mp>>

\* HashMap::remove: the value, and the map without the key.
map_remove(mp, k) == <<map_get(mp, k), {p \in mp : p[1] # k}>>

proxy_addr(opt) ==
    IF opt # None /\ parse_addr(opt[2]) # None THEN parse_addr(opt[2])[2] ELSE DEFAULT_ADDR

proxy_backlog(opt) ==
    IF opt # None /\ parse_u32(opt[2]) # None THEN parse_u32(opt[2])[2] ELSE DEFAULT_BACKLOG

\* HashMap::into_iter().collect::<Vec>: the entries in some order.
VecsOf(mp) ==
    {q \in [1..Cardinality(mp) -> mp] : \A p \in mp : \E i \in 1..Cardinality(mp) : q[i] = p}

\* The environment left for the handler once both settings are consumed.
handler_env(envs) ==
    map_remove(map_remove(collect_map(envs_from_ctx(envs)), ADDR_KEY)[2], BACKLOG_KEY)[2]

\* The same store without the request's id.
wasi_store_for_request_no_id(env, req_id, fresh) == [store |-> fresh, env |-> env]

\* A new Store whose WASI environment is env followed by REQUEST_ID.
wasi_store_for_request(env, req_id, fresh) ==
    [store |-> fresh, env |-> Append(env, <<REQUEST_ID_KEY, to_string(req_id)>>)]

InitEnv ==
    /\ RunIdle
    /\ target = "HttpProxy"
    /\ PrecompileIdle
    /\ ResolveIdle
    /\ DispatchIdle
    /\ ctx_envs \in CtxEnvs
    /\ env_st = "off"
    /\ addr = <<"-", 0>>
    /\ backlog = 0
    /\ henv = <<>>
    /\ stores = <<>>

\* serve_conn up to ProxyHandler::new; ok: the socket was created, bound
\* and put to listen.
EnvServeSetup(ok) ==
    /\ env_st = "off"
    /\ LET env0 == collect_map(envs_from_ctx(ctx_envs))
           a == map_remove(env0, ADDR_KEY)
           b == map_remove(a[2], BACKLOG_KEY)
       IN  /\ addr' = proxy_addr(a[1])
           /\ backlog' = proxy_backlog(b[1])
           /\ IF ok
                THEN /\ henv' \in VecsOf(b[2])
                     /\ env_st' = "serving"
                ELSE /\ henv' = henv
                     /\ env_st' = "failed"
    /\ UNCHANGED <<target, sigVars, srvVars, connVars, reqVars, preVars, tgtVars, dispVars,
                   ctx_envs, stores>>

\* handle_request up to the store: allocate the id, build the store.
EnvRequest ==
    /\ env_st = "serving"
    /\ Len(stores) < MaxStores
    /\ next_id' = next_req_id(next_id)
    /\ issued' = Append(issued, next_id)
    /\ stores' = Append(stores, wasi_store_for_request(henv, next_id, Len(stores) + 1))
    /\ UNCHANGED <<target, sigVars, srvVars, connVars, task, slot, reply, preVars, tgtVars,
                   dispVars, ctx_envs, env_st, addr, backlog, henv>>

NextEnv ==
    \/ \E ok \in BOOLEAN : EnvServeSetup(ok)
    \/ EnvRequest

SpecEnv == InitEnv /\ [][NextEnv]_vars

\* ==================================================================== claims

\* C1: a guest task that returns Ok without ever writing the response slot
\* makes handle_request return the "guest never set a response" error value
\* (no panic).
C1_NeverSetDiagnostic ==
    \A r \in Reqs :
        (task[r][1] = "ok" /\ slot[r][1] = "closed" /\ reply[r][1] \notin {"none", "dropped"})
            => reply[r][1] = "never_set"

\* C2: after a second termination signal, run returns 128 + N, N the number
\* of the signal delivered second (quit, terminate or interrupt).
C2_ForcedExitCode ==
    sig2 # "-" => result = OkCode(128 + SigNum(sig2))

\* C3: once the cancellation token is triggered, the accept loop accepts no
\* further connection.
C3_NoAcceptAfterCancel ==
    [][\A c \in Conns : (conn[c] = "backlog" /\ conn'[c] = "idle") => ~cancelled]_vars

\* Request r is in flight: its guest task was spawned and handle_request is
\* waiting for the response slot.
InFlight(r) == \E c \in Conns : conn[c] = "recv" /\ cur[c] = r

\* The guest did not produce a normal response for r, or the client went
\* away before it could be returned.
NoNormalResponse(r) ==
    \/ slot[r][1] = "closed"
    \/ slot[r][1] = "full" /\ slot[r][2][1] = "err"
    \/ reply[r][1] = "dropped"

\* C4: after one signal with a request in flight (and no second signal), the
\* request eventually receives its normal response and run eventually
\* returns exit code 0.
C4_DrainReturnsZero ==
    \A r \in Reqs :
        (done /\ InFlight(r)) ~>
            ((reply[r][1] = "ok" /\ result = OkCode(0)) \/ NoNormalResponse(r))

\* C5: request ids are pairwise distinct and strictly increasing in
\* issuance order.
C5_RequestIdsIncrease ==
    \A i, j \in 1..Len(issued) : i < j => issued[i] < issued[j]

\* C5 witness: two requests, issued on different connections, are being
\* handled at the same time.
C5_Witness ==
    /\ Len(issued) >= 2
    /\ \E c, d \in Conns : c # d /\ conn[c] = "recv" /\ conn[d] = "recv"

\* C6: a value written to the response slot is exactly what handle_request
\* returns, however the guest task ends afterwards.
C6_ReturnsWrittenValue ==
    \A r \in Reqs :
        (slot[r][1] = "full" /\ reply[r][1] \notin {"none", "dropped"})
            => reply[r] = slot[r][2]

\* C6 witness: the guest wrote a proxy-level error / a response, its task
\* then failed, and handle_request returned the written value.
C6_Witness ==
    /\ \E r \in Reqs : slot[r] = <<"full", <<"err", "code">>>> /\ task[r][1] = "err"
                           /\ reply[r] = <<"err", "code">>
    /\ \E r \in Reqs : slot[r][1] = "full" /\ slot[r][2][1] = "ok"
                           /\ task[r][1] \in {"err", "abort"} /\ reply[r] = slot[r][2]

\* C7: a guest task that fails before writing the slot makes handle_request
\* fail with that task's own error as the cause, not the receive error.
C7_TaskErrorIsCause ==
    \A r \in Reqs :
        (task[r][1] \in {"err", "abort"} /\ slot[r][1] = "closed"
            /\ reply[r][1] \notin {"none", "dropped"})
            => reply[r] = <<"never_set", task[r][2]>>

\* C7 witness: one request failed with the guest's error as the cause and
\* another with the abort of its task as the cause.
C7_Witness ==
    /\ \E r \in Reqs : task[r][1] = "err" /\ reply[r] = <<"never_set", task[r][2]>>
    /\ \E r \in Reqs : task[r][1] = "abort" /\ reply[r] = <<"never_set", task[r][2]>>

\* C8: in SignaledOnce a second signal is always enabled, whatever the drain
\* progress, and makes run return a forced exit code (above 128).
C8_SecondSignalImmediate ==
    /\ (done /\ Running) => \A s \in Signals : ENABLED SignalSecond(s)
    /\ sig2 # "-" => (result.kind = "ok" /\ result.code > 128)

\* C8 witness: run returned the forced exit code while the server was still
\* draining a connection whose guest task was still running.
C8_Witness ==
    /\ sig2 # "-"
    /\ srv = "drain"
    /\ \E c \in Conns : conn[c] = "recv" /\ task[cur[c]][1] = "running"

\* C9: on every path by which serve_conn returns after having listened, it
\* has drained first: no tracked connection task is still running when
\* control returns to the dispatcher.
C9_StoppedAfterDrain ==
    srv = "stopped" => \A c \in Conns : ~ConnLive(c)

\* C10: precompile returns one entry per layer, in layer order: None for a
\* precompiled or unrecognised layer, the blob for a module or component.
C10_OneEntryPerLayer ==
    pre_res = "ok" =>
        /\ Len(compiled_layers) = Len(layers)
        /\ \A i \in 1..Len(layers) :
              compiled_layers[i] = CASE layers[i] = "module" -> "cwasm_module"
                                     [] layers[i] = "component" -> "cwasm_component"
                                     [] OTHER -> "None"


\* Positions of the exports carrying each recognised prefix.
HttpAt == {i \in 1..Len(exports) : starts_with(exports[i], HTTP_PREFIX)}
CliAt == {i \in 1..Len(exports) : starts_with(exports[i], CLI_PREFIX)}

\* C12: resolution is first-match in listed order: an incoming-handler
\* export before any cli/run export gives HttpProxy, a cli/run export before
\* any incoming-handler export gives Command; other names do not matter.
C12_FirstMatchWins ==
    resolved[1] # "none" =>
        /\ (HttpAt # {} /\ \A j \in CliAt : \E i \in HttpAt : i < j)
              => resolved = <<"HttpProxy", "-">>
        /\ (CliAt # {} /\ \A i \in HttpAt : \E j \in CliAt : j < i)
              => resolved = <<"Command", "-">>

\* C12 witness: an unrecognised name, then incoming-handler, then cli/run,
\* resolved to HttpProxy.
C12_Witness ==
    /\ Len(exports) = 3
    /\ HttpAt = {2}
    /\ CliAt = {3}
    /\ resolved = <<"HttpProxy", "-">>

\* C13: resolution is total, and with no recognised prefix among the exports
\* (the empty list included) it yields Core with the requested name unchanged.
C13_CoreFallback ==
    /\ resolved[1] = "none" => ENABLED ResolveTarget
    /\ (resolved[1] # "none" /\ HttpAt = {} /\ CliAt = {}) => resolved = <<"Core", func>>

\* C13 witness: exports without a recognised prefix resolved to Core("main").
C13_Witness ==
    /\ Len(exports) >= 1
    /\ HttpAt = {}
    /\ CliAt = {}
    /\ resolved = <<"Core", "main">>


C16_DispatchFailures ==
    /\ (bin = "invalid" /\ result.kind # "none") =>
            (result = ErrRes("invalid precompiled module") /\ d_trace = <<"bail">>)
    /\ (d_out.k = "fail" /\ d_trace[Len(d_trace)] = "get_func") =>
            (result.kind = "err" /\ err_func = func)
    /\ d_out.k = "run_err" =>
            result = ErrRes("failed to run component targeting wasi:cli/command world")


\* The key of a context entry: the text before its first "=".
RawKey(raw) == <<raw[1]>>
RawValue(raw) == IF Len(raw) >= 2 THEN SubSeq(raw, 3, Len(raw)) ELSE <<>>
EnvKeys(env) == {env[j][1] : j \in 1..Len(env)}

\* C14: the two proxy settings never appear in the environment of a
\* per-request guest context, whatever their values; when a setting is
\* unset or unparsable the server uses 0.0.0.0:8080 and backlog 100.
C14_SettingsNeverLeak ==
    /\ \A i \in 1..Len(stores) :
            /\ <<"WASMTIME_HTTP_PROXY_SOCKET_ADDR">> \notin EnvKeys(stores[i].env)
            /\ <<"WASMTIME_HTTP_BACKLOG">> \notin EnvKeys(stores[i].env)
    /\ env_st = "serving" =>
        /\ (\A i \in 1..Len(ctx_envs) :
                RawKey(ctx_envs[i]) = <<"WASMTIME_HTTP_PROXY_SOCKET_ADDR">>
                    => parse_addr(RawValue(ctx_envs[i])) = None)
                => addr = <<"0.0.0.0", 8080>>
        /\ (\A i \in 1..Len(ctx_envs) :
                RawKey(ctx_envs[i]) = <<"WASMTIME_HTTP_BACKLOG">>
                    => parse_u32(RawValue(ctx_envs[i])) = None)
                => backlog = 100

\* C14 witness: a valid address and an unparsable backlog were configured,
\* a request got its store, and the server listens on the configured
\* address with the default backlog.
C14_Witness ==
    /\ env_st = "serving"
    /\ \E i \in 1..Len(ctx_envs) : ctx_envs[i] = <<"WASMTIME_HTTP_BACKLOG">>
    /\ \E i \in 1..Len(ctx_envs) : RawKey(ctx_envs[i]) = <<"WASMTIME_HTTP_PROXY_SOCKET_ADDR">>
    /\ addr = <<"127.0.0.1", 9>>
    /\ backlog = 100
    /\ Len(stores) >= 1

\* C20: every request gets a store no other request uses, whose environment
\* is the handler's base environment followed by REQUEST_ID with the decimal
\* digits of the id allocated for it; the base environment stays what the
\* handler was built with.
C20_FreshStorePerRequest ==
    /\ \A i \in 1..Len(stores) :
            /\ Len(stores[i].env) = Len(henv) + 1
            /\ SubSeq(stores[i].env, 1, Len(henv)) = henv
            /\ stores[i].env[Len(henv) + 1][1] = <<"REQUEST_ID">>
            /\ parse_u32(stores[i].env[Len(henv) + 1][2]) = Some(issued[i])
            /\ \A j \in 1..Len(stores) : stores[i].store = stores[j].store => i = j
    /\ env_st = "serving" => {henv[j] : j \in 1..Len(henv)} = handler_env(ctx_envs)

\* C20 witness: eleven stores were built over a non-empty base environment,
\* the last one for the id 10.
C20_Witness ==
    /\ Len(stores) = 11
    /\ henv # <<>>
    /\ stores[11].env[Len(henv) + 1] = <<<<"REQUEST_ID">>, <<"1", "0">>>>


\* C15: a step in which a connection ends or a guest task fails leaves the
\* serve loop, the process result and every other connection as they were,
\* and a drain that completes returns exit code 0 whatever failed before.
C15_FailuresIsolated ==
    [][/\ \A c \in Conns :
            (conn[c] # "done" /\ conn'[c] = "done") =>
                /\ srv' = srv
                /\ result' = result
                /\ trackerClosed' = trackerClosed
                /\ \A d \in Conns \ {c} : conn'[d] = conn[d] /\ cur'[d] = cur[d]
       /\ \A r \in Reqs :
            (task'[r] # task[r] /\ task'[r][1] \in {"err", "abort"}) =>
                /\ srv' = srv
                /\ result' = result
                /\ conn' = conn
       /\ (srv' = "stopped" /\ trackerClosed') => result' = OkCode(0)]_vars

\* C15 witness: a request failed, a later request on another connection was
\* answered, and the graceful shutdown returned 0.
C15_Witness ==
    /\ \E r1, r2 \in Reqs :
            /\ r1 < r2
            /\ reply[r1][1] \in {"inst_err", "err", "never_set"}
            /\ reply[r2] = <<"ok", "resp">>
    /\ srv = "stopped"
    /\ trackerClosed
    /\ result = OkCode(0)

C18_InFlightRunsToCompletion ==
    /\ (target \in {"Command", "Core"} /\ result.kind # "none" /\ nsig <= 1) =>
            result \in {into_error_code(o) : o \in ExecOutcomes}
    /\ (srv = "stopped" /\ trackerClosed) =>
            /\ \A r \in Reqs : task[r][1] # "running"
            /\ \A c \in Conns : ~ConnLive(c)

\* C19: the token is cancelled exactly in the step in which the first signal
\* is delivered, at most once and never without a signal; a forced exit code
\* is returned only after the cancellation; a run that ends before any signal
\* returns the guest's own result.
C19_CoordinatorStates ==
    [][/\ cancelled' # cancelled => (~cancelled /\ nsig = 0 /\ nsig' = 1)
       /\ (nsig = 0 /\ nsig' = 1) => (cancelled' /\ ~cancelled)
       /\ done' = cancelled'
       /\ sig2' # "-" => (cancelled' /\ nsig' = 2)
       /\ (result' # result /\ nsig' = 0 /\ target \in {"Command", "Core"}) =>
            result' \in {into_error_code(o) : o \in ExecOutcomes}]_vars


\* The number of redirect steps carried out so far.
Redirects == Cardinality({i \in 1..Len(d_trace) : d_trace[i] = "redirect"})

\* C21: stdio is redirected at most once in a run, and a guest call is
\* directly preceded by the redirect: no other step, such as a linking or an
\* instantiation that can fail, lies between the two.
C21_RedirectJustBeforeGuest ==
    /\ Redirects <= 1
    /\ \A i \in 1..Len(d_trace) :
            d_trace[i] \in {"call", "call_run", "serve"} =>
                (i > 1 /\ d_trace[i - 1] = "redirect")

\* C22: in the build for non-unix platforms the first interrupt makes run
\* return the forced exit code 1, without cancelling the token first and
\* without a second interrupt.
C22_SingleInterruptExitsOne ==
    [][/\ (nsig = 0 /\ nsig' = 1) => (result' = OkCode(1) /\ ~cancelled')
       /\ (nsig' > nsig /\ result' # result) => result' = OkCode(1)]_vars

=============================================================================
